---- MODULE Spec2Model ----
(***************************************************************************)
(* A model of the Hangman game of src/__main__.py: word selection by       *)
(* HangmanWord.from_config, the puzzle state of HangmanWord, the guess     *)
(* evaluation of Guess.guess and the game loop of Game.turn / Game.start.  *)
(*                                                                         *)
(* A Python str is modelled as the sequence of its code points (ord of     *)
(* each character), so "ab" is <<97, 98>> and the empty string is <<>>.    *)
(* The three values of an Optional[bool] are written "True", "False" and   *)
(* "None".                                                                 *)
(***************************************************************************)
EXTENDS Integers, Sequences, FiniteSets, TLC

VARIABLES
    config,     \* Game.config: the settings namespace
    pc,         \* where the program is
    words,      \* from_config's local `words` (the loaded corpus)
    choices,    \* from_config's local `choices`
    drawn,      \* from_config's local `word`, as the str it was built from
    word,       \* Game.word.word: the list of HangmanChar cells
    guesses,    \* Game.guesses
    lives,      \* Game.lives
    char,       \* get_guess's local `char` (the last line read)
    turn_ret,   \* the value the latest call of Game.turn returned
    start_ret,  \* the value Game.start returned
    err,        \* the exception that ended the program, if any
    ui,         \* what the latest call of Game.turn painted, in order
    turns,      \* the calls of Game.turn so far
    accepts,    \* the lines input() returned that get_guess accepted
    rejects     \* the lines input() returned that get_guess turned down,
                \* counted up to MaxRejects

vars == <<config, pc, words, choices, drawn, word, guesses, lives, char,
          turn_ret, start_ret, err, ui, turns, accepts, rejects>>

-----------------------------------------------------------------------------
(* Bounds of the model *)

\* the largest number of lives a configuration gives
MaxLives == 2
\* the largest number of entries of a word list
MaxCorpus == 2
\* how many times the player repeats a guess that costs nothing
MaxNeutral == 1
\* how many of the lines get_guess turns down are counted
MaxRejects == 1
\* how many times Game.turn is called again after Game.start returned
MaxExtraTurns == 1

-----------------------------------------------------------------------------
(* Strings *)

\* string.ascii_lowercase: the code points of "abcdefghijklmnopqrstuvwxyz"
ascii_lowercase ==
    <<97, 98, 99, 100, 101, 102, 103, 104, 105, 106, 107, 108, 109,
      110, 111, 112, 113, 114, 115, 116, 117, 118, 119, 120, 121, 122>>

\* Python's `s in t` for two strs: s is a contiguous part of t
\* (the empty string is a part of every string)
StrIn(s, t) ==
    \E k \in 0..(Len(t) - Len(s)) :
        \A i \in 1..Len(s) : t[k + i] = s[i]

\* the code points str.isalpha takes for letters: those of the Unicode
\* categories Lu, Ll, Lt, Lm and Lo (Unicode 14.0.0, the database of
\* Python 3.11), as the ranges <<first, last>> they make between 0 and 1114111
letter_ranges ==
    {<<65, 90>>, <<97, 122>>, <<170, 170>>, <<181, 181>>, <<186, 186>>,
     <<192, 214>>, <<216, 246>>, <<248, 705>>, <<710, 721>>, <<736, 740>>,
     <<748, 748>>, <<750, 750>>, <<880, 884>>, <<886, 887>>, <<890, 893>>,
     <<895, 895>>, <<902, 902>>, <<904, 906>>, <<908, 908>>, <<910, 929>>,
     <<931, 1013>>, <<1015, 1153>>, <<1162, 1327>>, <<1329, 1366>>,
     <<1369, 1369>>, <<1376, 1416>>, <<1488, 1514>>, <<1519, 1522>>,
     <<1568, 1610>>, <<1646, 1647>>, <<1649, 1747>>, <<1749, 1749>>,
     <<1765, 1766>>, <<1774, 1775>>, <<1786, 1788>>, <<1791, 1791>>,
     <<1808, 1808>>, <<1810, 1839>>, <<1869, 1957>>, <<1969, 1969>>,
     <<1994, 2026>>, <<2036, 2037>>, <<2042, 2042>>, <<2048, 2069>>,
     <<2074, 2074>>, <<2084, 2084>>, <<2088, 2088>>, <<2112, 2136>>,
     <<2144, 2154>>, <<2160, 2183>>, <<2185, 2190>>, <<2208, 2249>>,
     <<2308, 2361>>, <<2365, 2365>>, <<2384, 2384>>, <<2392, 2401>>,
     <<2417, 2432>>, <<2437, 2444>>, <<2447, 2448>>, <<2451, 2472>>,
     <<2474, 2480>>, <<2482, 2482>>, <<2486, 2489>>, <<2493, 2493>>,
     <<2510, 2510>>, <<2524, 2525>>, <<2527, 2529>>, <<2544, 2545>>,
     <<2556, 2556>>, <<2565, 2570>>, <<2575, 2576>>, <<2579, 2600>>,
     <<2602, 2608>>, <<2610, 2611>>, <<2613, 2614>>, <<2616, 2617>>,
     <<2649, 2652>>, <<2654, 2654>>, <<2674, 2676>>, <<2693, 2701>>,
     <<2703, 2705>>, <<2707, 2728>>, <<2730, 2736>>, <<2738, 2739>>,
     <<2741, 2745>>, <<2749, 2749>>, <<2768, 2768>>, <<2784, 2785>>,
     <<2809, 2809>>, <<2821, 2828>>, <<2831, 2832>>, <<2835, 2856>>,
     <<2858, 2864>>, <<2866, 2867>>, <<2869, 2873>>, <<2877, 2877>>,
     <<2908, 2909>>, <<2911, 2913>>, <<2929, 2929>>, <<2947, 2947>>,
     <<2949, 2954>>, <<2958, 2960>>, <<2962, 2965>>, <<2969, 2970>>,
     <<2972, 2972>>, <<2974, 2975>>, <<2979, 2980>>, <<2984, 2986>>,
     <<2990, 3001>>, <<3024, 3024>>, <<3077, 3084>>, <<3086, 3088>>,
     <<3090, 3112>>, <<3114, 3129>>, <<3133, 3133>>, <<3160, 3162>>,
     <<3165, 3165>>, <<3168, 3169>>, <<3200, 3200>>, <<3205, 3212>>,
     <<3214, 3216>>, <<3218, 3240>>, <<3242, 3251>>, <<3253, 3257>>,
     <<3261, 3261>>, <<3293, 3294>>, <<3296, 3297>>, <<3313, 3314>>,
     <<3332, 3340>>, <<3342, 3344>>, <<3346, 3386>>, <<3389, 3389>>,
     <<3406, 3406>>, <<3412, 3414>>, <<3423, 3425>>, <<3450, 3455>>,
     <<3461, 3478>>, <<3482, 3505>>, <<3507, 3515>>, <<3517, 3517>>,
     <<3520, 3526>>, <<3585, 3632>>, <<3634, 3635>>, <<3648, 3654>>,
     <<3713, 3714>>, <<3716, 3716>>, <<3718, 3722>>, <<3724, 3747>>,
     <<3749, 3749>>, <<3751, 3760>>, <<3762, 3763>>, <<3773, 3773>>,
     <<3776, 3780>>, <<3782, 3782>>, <<3804, 3807>>, <<3840, 3840>>,
     <<3904, 3911>>, <<3913, 3948>>, <<3976, 3980>>, <<4096, 4138>>,
     <<4159, 4159>>, <<4176, 4181>>, <<4186, 4189>>, <<4193, 4193>>,
     <<4197, 4198>>, <<4206, 4208>>, <<4213, 4225>>, <<4238, 4238>>,
     <<4256, 4293>>, <<4295, 4295>>, <<4301, 4301>>, <<4304, 4346>>,
     <<4348, 4680>>, <<4682, 4685>>, <<4688, 4694>>, <<4696, 4696>>,
     <<4698, 4701>>, <<4704, 4744>>, <<4746, 4749>>, <<4752, 4784>>,
     <<4786, 4789>>, <<4792, 4798>>, <<4800, 4800>>, <<4802, 4805>>,
     <<4808, 4822>>, <<4824, 4880>>, <<4882, 4885>>, <<4888, 4954>>,
     <<4992, 5007>>, <<5024, 5109>>, <<5112, 5117>>, <<5121, 5740>>,
     <<5743, 5759>>, <<5761, 5786>>, <<5792, 5866>>, <<5873, 5880>>,
     <<5888, 5905>>, <<5919, 5937>>, <<5952, 5969>>, <<5984, 5996>>,
     <<5998, 6000>>, <<6016, 6067>>, <<6103, 6103>>, <<6108, 6108>>,
     <<6176, 6264>>, <<6272, 6276>>, <<6279, 6312>>, <<6314, 6314>>,
     <<6320, 6389>>, <<6400, 6430>>, <<6480, 6509>>, <<6512, 6516>>,
     <<6528, 6571>>, <<6576, 6601>>, <<6656, 6678>>, <<6688, 6740>>,
     <<6823, 6823>>, <<6917, 6963>>, <<6981, 6988>>, <<7043, 7072>>,
     <<7086, 7087>>, <<7098, 7141>>, <<7168, 7203>>, <<7245, 7247>>,
     <<7258, 7293>>, <<7296, 7304>>, <<7312, 7354>>, <<7357, 7359>>,
     <<7401, 7404>>, <<7406, 7411>>, <<7413, 7414>>, <<7418, 7418>>,
     <<7424, 7615>>, <<7680, 7957>>, <<7960, 7965>>, <<7968, 8005>>,
     <<8008, 8013>>, <<8016, 8023>>, <<8025, 8025>>, <<8027, 8027>>,
     <<8029, 8029>>, <<8031, 8061>>, <<8064, 8116>>, <<8118, 8124>>,
     <<8126, 8126>>, <<8130, 8132>>, <<8134, 8140>>, <<8144, 8147>>,
     <<8150, 8155>>, <<8160, 8172>>, <<8178, 8180>>, <<8182, 8188>>,
     <<8305, 8305>>, <<8319, 8319>>, <<8336, 8348>>, <<8450, 8450>>,
     <<8455, 8455>>, <<8458, 8467>>, <<8469, 8469>>, <<8473, 8477>>,
     <<8484, 8484>>, <<8486, 8486>>, <<8488, 8488>>, <<8490, 8493>>,
     <<8495, 8505>>, <<8508, 8511>>, <<8517, 8521>>, <<8526, 8526>>,
     <<8579, 8580>>, <<11264, 11492>>, <<11499, 11502>>, <<11506, 11507>>,
     <<11520, 11557>>, <<11559, 11559>>, <<11565, 11565>>, <<11568, 11623>>,
     <<11631, 11631>>, <<11648, 11670>>, <<11680, 11686>>, <<11688, 11694>>,
     <<11696, 11702>>, <<11704, 11710>>, <<11712, 11718>>, <<11720, 11726>>,
     <<11728, 11734>>, <<11736, 11742>>, <<11823, 11823>>, <<12293, 12294>>,
     <<12337, 12341>>, <<12347, 12348>>, <<12353, 12438>>, <<12445, 12447>>,
     <<12449, 12538>>, <<12540, 12543>>, <<12549, 12591>>, <<12593, 12686>>,
     <<12704, 12735>>, <<12784, 12799>>, <<13312, 19903>>, <<19968, 42124>>,
     <<42192, 42237>>, <<42240, 42508>>, <<42512, 42527>>, <<42538, 42539>>,
     <<42560, 42606>>, <<42623, 42653>>, <<42656, 42725>>, <<42775, 42783>>,
     <<42786, 42888>>, <<42891, 42954>>, <<42960, 42961>>, <<42963, 42963>>,
     <<42965, 42969>>, <<42994, 43009>>, <<43011, 43013>>, <<43015, 43018>>,
     <<43020, 43042>>, <<43072, 43123>>, <<43138, 43187>>, <<43250, 43255>>,
     <<43259, 43259>>, <<43261, 43262>>, <<43274, 43301>>, <<43312, 43334>>,
     <<43360, 43388>>, <<43396, 43442>>, <<43471, 43471>>, <<43488, 43492>>,
     <<43494, 43503>>, <<43514, 43518>>, <<43520, 43560>>, <<43584, 43586>>,
     <<43588, 43595>>, <<43616, 43638>>, <<43642, 43642>>, <<43646, 43695>>,
     <<43697, 43697>>, <<43701, 43702>>, <<43705, 43709>>, <<43712, 43712>>,
     <<43714, 43714>>, <<43739, 43741>>, <<43744, 43754>>, <<43762, 43764>>,
     <<43777, 43782>>, <<43785, 43790>>, <<43793, 43798>>, <<43808, 43814>>,
     <<43816, 43822>>, <<43824, 43866>>, <<43868, 43881>>, <<43888, 44002>>,
     <<44032, 55203>>, <<55216, 55238>>, <<55243, 55291>>, <<63744, 64109>>,
     <<64112, 64217>>, <<64256, 64262>>, <<64275, 64279>>, <<64285, 64285>>,
     <<64287, 64296>>, <<64298, 64310>>, <<64312, 64316>>, <<64318, 64318>>,
     <<64320, 64321>>, <<64323, 64324>>, <<64326, 64433>>, <<64467, 64829>>,
     <<64848, 64911>>, <<64914, 64967>>, <<65008, 65019>>, <<65136, 65140>>,
     <<65142, 65276>>, <<65313, 65338>>, <<65345, 65370>>, <<65382, 65470>>,
     <<65474, 65479>>, <<65482, 65487>>, <<65490, 65495>>, <<65498, 65500>>,
     <<65536, 65547>>, <<65549, 65574>>, <<65576, 65594>>, <<65596, 65597>>,
     <<65599, 65613>>, <<65616, 65629>>, <<65664, 65786>>, <<66176, 66204>>,
     <<66208, 66256>>, <<66304, 66335>>, <<66349, 66368>>, <<66370, 66377>>,
     <<66384, 66421>>, <<66432, 66461>>, <<66464, 66499>>, <<66504, 66511>>,
     <<66560, 66717>>, <<66736, 66771>>, <<66776, 66811>>, <<66816, 66855>>,
     <<66864, 66915>>, <<66928, 66938>>, <<66940, 66954>>, <<66956, 66962>>,
     <<66964, 66965>>, <<66967, 66977>>, <<66979, 66993>>, <<66995, 67001>>,
     <<67003, 67004>>, <<67072, 67382>>, <<67392, 67413>>, <<67424, 67431>>,
     <<67456, 67461>>, <<67463, 67504>>, <<67506, 67514>>, <<67584, 67589>>,
     <<67592, 67592>>, <<67594, 67637>>, <<67639, 67640>>, <<67644, 67644>>,
     <<67647, 67669>>, <<67680, 67702>>, <<67712, 67742>>, <<67808, 67826>>,
     <<67828, 67829>>, <<67840, 67861>>, <<67872, 67897>>, <<67968, 68023>>,
     <<68030, 68031>>, <<68096, 68096>>, <<68112, 68115>>, <<68117, 68119>>,
     <<68121, 68149>>, <<68192, 68220>>, <<68224, 68252>>, <<68288, 68295>>,
     <<68297, 68324>>, <<68352, 68405>>, <<68416, 68437>>, <<68448, 68466>>,
     <<68480, 68497>>, <<68608, 68680>>, <<68736, 68786>>, <<68800, 68850>>,
     <<68864, 68899>>, <<69248, 69289>>, <<69296, 69297>>, <<69376, 69404>>,
     <<69415, 69415>>, <<69424, 69445>>, <<69488, 69505>>, <<69552, 69572>>,
     <<69600, 69622>>, <<69635, 69687>>, <<69745, 69746>>, <<69749, 69749>>,
     <<69763, 69807>>, <<69840, 69864>>, <<69891, 69926>>, <<69956, 69956>>,
     <<69959, 69959>>, <<69968, 70002>>, <<70006, 70006>>, <<70019, 70066>>,
     <<70081, 70084>>, <<70106, 70106>>, <<70108, 70108>>, <<70144, 70161>>,
     <<70163, 70187>>, <<70272, 70278>>, <<70280, 70280>>, <<70282, 70285>>,
     <<70287, 70301>>, <<70303, 70312>>, <<70320, 70366>>, <<70405, 70412>>,
     <<70415, 70416>>, <<70419, 70440>>, <<70442, 70448>>, <<70450, 70451>>,
     <<70453, 70457>>, <<70461, 70461>>, <<70480, 70480>>, <<70493, 70497>>,
     <<70656, 70708>>, <<70727, 70730>>, <<70751, 70753>>, <<70784, 70831>>,
     <<70852, 70853>>, <<70855, 70855>>, <<71040, 71086>>, <<71128, 71131>>,
     <<71168, 71215>>, <<71236, 71236>>, <<71296, 71338>>, <<71352, 71352>>,
     <<71424, 71450>>, <<71488, 71494>>, <<71680, 71723>>, <<71840, 71903>>,
     <<71935, 71942>>, <<71945, 71945>>, <<71948, 71955>>, <<71957, 71958>>,
     <<71960, 71983>>, <<71999, 71999>>, <<72001, 72001>>, <<72096, 72103>>,
     <<72106, 72144>>, <<72161, 72161>>, <<72163, 72163>>, <<72192, 72192>>,
     <<72203, 72242>>, <<72250, 72250>>, <<72272, 72272>>, <<72284, 72329>>,
     <<72349, 72349>>, <<72368, 72440>>, <<72704, 72712>>, <<72714, 72750>>,
     <<72768, 72768>>, <<72818, 72847>>, <<72960, 72966>>, <<72968, 72969>>,
     <<72971, 73008>>, <<73030, 73030>>, <<73056, 73061>>, <<73063, 73064>>,
     <<73066, 73097>>, <<73112, 73112>>, <<73440, 73458>>, <<73648, 73648>>,
     <<73728, 74649>>, <<74880, 75075>>, <<77712, 77808>>, <<77824, 78894>>,
     <<82944, 83526>>, <<92160, 92728>>, <<92736, 92766>>, <<92784, 92862>>,
     <<92880, 92909>>, <<92928, 92975>>, <<92992, 92995>>, <<93027, 93047>>,
     <<93053, 93071>>, <<93760, 93823>>, <<93952, 94026>>, <<94032, 94032>>,
     <<94099, 94111>>, <<94176, 94177>>, <<94179, 94179>>,
     <<94208, 100343>>, <<100352, 101589>>, <<101632, 101640>>,
     <<110576, 110579>>, <<110581, 110587>>, <<110589, 110590>>,
     <<110592, 110882>>, <<110928, 110930>>, <<110948, 110951>>,
     <<110960, 111355>>, <<113664, 113770>>, <<113776, 113788>>,
     <<113792, 113800>>, <<113808, 113817>>, <<119808, 119892>>,
     <<119894, 119964>>, <<119966, 119967>>, <<119970, 119970>>,
     <<119973, 119974>>, <<119977, 119980>>, <<119982, 119993>>,
     <<119995, 119995>>, <<119997, 120003>>, <<120005, 120069>>,
     <<120071, 120074>>, <<120077, 120084>>, <<120086, 120092>>,
     <<120094, 120121>>, <<120123, 120126>>, <<120128, 120132>>,
     <<120134, 120134>>, <<120138, 120144>>, <<120146, 120485>>,
     <<120488, 120512>>, <<120514, 120538>>, <<120540, 120570>>,
     <<120572, 120596>>, <<120598, 120628>>, <<120630, 120654>>,
     <<120656, 120686>>, <<120688, 120712>>, <<120714, 120744>>,
     <<120746, 120770>>, <<120772, 120779>>, <<122624, 122654>>,
     <<123136, 123180>>, <<123191, 123197>>, <<123214, 123214>>,
     <<123536, 123565>>, <<123584, 123627>>, <<124896, 124902>>,
     <<124904, 124907>>, <<124909, 124910>>, <<124912, 124926>>,
     <<124928, 125124>>, <<125184, 125251>>, <<125259, 125259>>,
     <<126464, 126467>>, <<126469, 126495>>, <<126497, 126498>>,
     <<126500, 126500>>, <<126503, 126503>>, <<126505, 126514>>,
     <<126516, 126519>>, <<126521, 126521>>, <<126523, 126523>>,
     <<126530, 126530>>, <<126535, 126535>>, <<126537, 126537>>,
     <<126539, 126539>>, <<126541, 126543>>, <<126545, 126546>>,
     <<126548, 126548>>, <<126551, 126551>>, <<126553, 126553>>,
     <<126555, 126555>>, <<126557, 126557>>, <<126559, 126559>>,
     <<126561, 126562>>, <<126564, 126564>>, <<126567, 126570>>,
     <<126572, 126578>>, <<126580, 126583>>, <<126585, 126588>>,
     <<126590, 126590>>, <<126592, 126601>>, <<126603, 126619>>,
     <<126625, 126627>>, <<126629, 126633>>, <<126635, 126651>>,
     <<131072, 173791>>, <<173824, 177976>>, <<177984, 178205>>,
     <<178208, 183969>>, <<183984, 191456>>, <<194560, 195101>>,
     <<196608, 201546>>}

\* str.isalpha: at least one character, and every character a letter
isalpha(s) ==
    /\ Len(s) > 0
    /\ \A i \in 1..Len(s) :
        \E r \in letter_ranges : r[1] <= s[i] /\ s[i] <= r[2]

\* abs
abs(n) == IF n < 0 THEN -n ELSE n

\* Python's seq[:n]: the first n elements, the whole of a shorter seq, and
\* for a negative n all but the last -n elements
SliceTo(s, n) ==
    LET stop == IF n >= 0 THEN (IF n < Len(s) THEN n ELSE Len(s))
                ELSE (IF Len(s) + n > 0 THEN Len(s) + n ELSE 0)
    IN  SubSeq(s, 1, stop)

\* an insertion step that puts e before the elements with the same key,
\* which makes the sort put equal keys in reverse order
RECURSIVE InsertByKey_before_equal(_, _, _)
InsertByKey_before_equal(s, e, d) ==
    IF s = <<>> THEN <<e>>
    ELSE IF abs(s[Len(s)].frequency - d) < abs(e.frequency - d)
         THEN Append(s, e)
         ELSE Append(InsertByKey_before_equal(SubSeq(s, 1, Len(s) - 1), e, d),
                     s[Len(s)])

\* one step of a stable insertion sort: e goes after every element of the
\* sorted s whose key is not larger
RECURSIVE InsertByKey(_, _, _)
InsertByKey(s, e, d) ==
    IF s = <<>> THEN <<e>>
    ELSE IF abs(s[Len(s)].frequency - d) <= abs(e.frequency - d)
         THEN Append(s, e)
         ELSE Append(InsertByKey(SubSeq(s, 1, Len(s) - 1), e, d), s[Len(s)])

\* sorted(words, key=lambda word: abs(word.frequency - d)); sorted is stable
RECURSIVE sorted(_, _)
sorted(ws, d) ==
    IF ws = <<>> THEN <<>>
    ELSE InsertByKey(sorted(SubSeq(ws, 1, Len(ws) - 1), d), ws[Len(ws)], d)

-----------------------------------------------------------------------------
(* HangmanWord *)

\* HangmanWord.__init__: one cell per character, none guessed
HangmanWord(s) == [i \in 1..Len(s) |-> [char |-> <<s[i]>>, guessed |-> FALSE]]

\* HangmanChar.guessable
guessable(c) == StrIn(c.char, ascii_lowercase)

\* a display that hides every cell not guessed, guessable or not
char_display_hides_all(c) == IF c.guessed THEN c.char ELSE <<95>>

\* HangmanChar.display
char_display(c) ==
    IF guessable(c) THEN (IF c.guessed THEN c.char ELSE <<95>>) ELSE c.char

\* HangmanWord.get_chars: the list of the cells' characters
get_chars(w) == [i \in 1..Len(w) |-> w[i].char]

\* ''.join of a list of strs
RECURSIVE join(_)
join(l) == IF l = <<>> THEN <<>> ELSE Head(l) \o join(Tail(l))

\* ' '.join of a list of strs
RECURSIVE space_join(_)
space_join(l) ==
    IF l = <<>> THEN <<>>
    ELSE IF Len(l) = 1 THEN Head(l)
    ELSE Head(l) \o <<32>> \o space_join(Tail(l))

\* HangmanWord.__str__
str(w) == join(get_chars(w))

\* HangmanWord.display
display(w) == space_join([i \in 1..Len(w) |-> char_display(w[i])])

\* a has_won that wants every cell guessed, guessable or not
has_won_every_cell(w) == \A i \in 1..Len(w) : w[i].guessed

\* HangmanWord.has_won
has_won(w) == \A i \in 1..Len(w) : guessable(w[i]) => w[i].guessed

-----------------------------------------------------------------------------
(* Guess *)

\* a Guess.guess that looks the character up in the word before it looks
\* for a duplicate
guess_correct_word_first(c, gs, w, cfg) ==
    IF \E i \in 1..Len(w) : get_chars(w)[i] = c
    THEN "True"
    ELSE IF \E i \in 1..Len(gs) : gs[i].char = c
         THEN (IF cfg.lose_life_on_duplicate_guess THEN "False" ELSE "None")
         ELSE "False"

\* Guess.guess, the value it returns and stores in Guess.correct
guess_correct(c, gs, w, cfg) ==
    IF \E i \in 1..Len(gs) : gs[i].char = c
    THEN (IF cfg.lose_life_on_duplicate_guess THEN "False" ELSE "None")
    ELSE IF \E i \in 1..Len(w) : get_chars(w)[i] = c
         THEN "True"
         ELSE "False"

\* a Guess.guess whose loop over the cells stops at the first match
guess_word_first_only(c, gs, w, cfg) ==
    IF guess_correct(c, gs, w, cfg) = "True" /\ ~(\E i \in 1..Len(gs) : gs[i].char = c)
    THEN [i \in 1..Len(w) |->
            IF w[i].char = c /\ ~(\E j \in 1..(i - 1) : w[j].char = c)
            THEN [w[i] EXCEPT !.guessed = TRUE] ELSE w[i]]
    ELSE w

\* a Guess.guess that marks, outside its else branch, every cell whose
\* character is a part of the guess
guess_word_any_part(c, gs, w, cfg) ==
    [i \in 1..Len(w) |->
        IF StrIn(w[i].char, c) THEN [w[i] EXCEPT !.guessed = TRUE] ELSE w[i]]

\* Guess.guess, what it does to the cells of the word
guess_word(c, gs, w, cfg) ==
    IF guess_correct(c, gs, w, cfg) = "True" /\ ~(\E i \in 1..Len(gs) : gs[i].char = c)
    THEN [i \in 1..Len(w) |->
            IF w[i].char = c THEN [w[i] EXCEPT !.guessed = TRUE] ELSE w[i]]
    ELSE w

\* Game.get_guess, the test a line has to pass
accepted(s) == StrIn(s, ascii_lowercase) /\ s # <<>>

\* a Game.turn that tests the guess with `not`, so that None costs a life too
lives_after_not(l, r) == IF r # "True" THEN l - 1 ELSE l

\* a Game.turn that takes the life on the wrong branch
lives_after_inverted(l, r) == IF r = "True" THEN l - 1 ELSE l

\* Game.turn, the lives after a guess that returned r
lives_after(l, r) == IF r = "False" THEN l - 1 ELSE l

\* a Game.start that hands on what the last turn returned
start_return_turn(r) == r

\* Game.start, the value it returns once a turn returned r
start_return(r) == "None"

-----------------------------------------------------------------------------
(* The inputs the model draws from *)

\* the entries of the word lists
Entries ==
    { [word |-> <<97, 98, 97>>, frequency |-> 0],   \* "aba"
      [word |-> <<97, 45>>,     frequency |-> 2],   \* "a-"
      [word |-> <<65>>,         frequency |-> 2],   \* "A"
      [word |-> <<>>,           frequency |-> 5],   \* ""
      [word |-> <<45>>,         frequency |-> 4],   \* "-"
      [word |-> <<97, 233>>,    frequency |-> 3] }  \* "a" and e acute

RECURSIVE SeqsUpTo(_, _)
SeqsUpTo(S, n) ==
    IF n = 0 THEN {<<>>}
    ELSE LET shorter == SeqsUpTo(S, n - 1)
         IN  shorter \cup
             {Append(s, e) : s \in {t \in shorter : Len(t) = n - 1},
                             e \in S}

\* the word lists: no entry twice
Corpora ==
    {c \in SeqsUpTo(Entries, MaxCorpus) :
        \A i, j \in 1..Len(c) : i # j => c[i] # c[j]}

\* the settings
Configs ==
    [difficulty : {1, 3},
     selection_range : -1..(MaxCorpus + 1),
     use_punctuated : BOOLEAN,
     lives : 0..MaxLives,
     lose_life_on_duplicate_guess : BOOLEAN]

\* the lines the player types: "a", "b", "x", "ab", "", "A", "1", "-", "ba"
Inputs ==
    { <<97>>, <<98>>, <<120>>, <<97, 98>>,
      <<>>, <<65>>, <<49>>, <<45>>, <<98, 97>> }

-----------------------------------------------------------------------------
(* The program *)

Init ==
    /\ config \in Configs
    /\ pc = "new"
    /\ words = <<>>
    /\ choices = <<>>
    /\ drawn = <<>>
    /\ word = <<>>
    /\ guesses = <<>>
    /\ lives = 0
    /\ char = <<>>
    /\ turn_ret = "None"
    /\ start_ret = "running"
    /\ err = "none"
    /\ ui = <<>>
    /\ turns = 0
    /\ accepts = 0
    /\ rejects = 0

\* the guesses that cost nothing so far
NeutralCount(gs) == Cardinality({i \in 1..Len(gs) : gs[i].correct = "None"})

\* from_config up to its loop: load the word list, sort it and cut it
FromConfigLoad ==
    /\ pc = "new"
    /\ \E c \in Corpora :
        /\ words' = c
        /\ choices' = SliceTo(sorted(c, config.difficulty), config.selection_range)
    /\ pc' = "choose"
    /\ UNCHANGED <<config, drawn, word, guesses, lives, char, turn_ret,
                   start_ret, err, ui, turns, accepts, rejects>>

\* random.choice on an empty list
ChooseFails ==
    /\ pc = "choose"
    /\ choices = <<>>
    /\ pc' = "error"
    /\ err' = "IndexError"
    /\ UNCHANGED <<config, words, choices, drawn, word, guesses, lives, char,
                   turn_ret, start_ret, ui, turns, accepts, rejects>>

\* one round of from_config's loop that draws a word and tries again
ChooseAgain ==
    /\ pc = "choose"
    /\ \E i \in 1..Len(choices) :
        /\ ~config.use_punctuated /\ ~isalpha(str(HangmanWord(choices[i].word)))
        /\ drawn' = choices[i].word
    /\ UNCHANGED <<config, pc, words, choices, word, guesses, lives, char,
                   turn_ret, start_ret, err, ui, turns, accepts, rejects>>

\* the round of from_config's loop that draws a word and returns it
ChooseReturn ==
    /\ pc = "choose"
    /\ \E i \in 1..Len(choices) :
        /\ ~(~config.use_punctuated /\ ~isalpha(str(HangmanWord(choices[i].word))))
        /\ drawn' = choices[i].word
        /\ word' = HangmanWord(choices[i].word)
    /\ pc' = "selected"
    /\ UNCHANGED <<config, words, choices, guesses, lives, char, turn_ret,
                   start_ret, err, ui, turns, accepts, rejects>>

\* the rest of Game.__init__, and the call of Game.start
GameInit ==
    /\ pc = "selected"
    /\ guesses' = <<>>
    /\ lives' = config.lives
    /\ words' = <<>>
    /\ choices' = <<>>
    /\ drawn' = <<>>
    /\ pc' = "turn"
    /\ UNCHANGED <<config, word, char, turn_ret, start_ret, err, ui, turns,
                   accepts, rejects>>

\* Game.turn is called: by Game.start while it runs, or by the caller of
\* Game.start once more after it returned
TurnCalled ==
    \/ pc = "turn"
    \/ pc = "done" /\ turns < Len(guesses) + 1 + MaxExtraTurns

\* a Game.turn that paints the in-progress UI only when it goes on to ask
\* for a guess
TurnWon_endgame_only ==
    /\ TurnCalled
    /\ has_won(word)
    /\ ui' = <<"endgame won">>
    /\ turn_ret' = "True"
    /\ start_ret' = IF pc = "turn" THEN start_return("True") ELSE start_ret
    /\ pc' = "done"
    /\ turns' = turns + 1
    /\ UNCHANGED <<config, words, choices, drawn, word, guesses, lives, char,
                   err, accepts, rejects>>

\* Game.turn on a won puzzle; Game.start, when it made the call, returns
TurnWon ==
    /\ TurnCalled
    /\ has_won(word)
    /\ ui' = <<"UI", "endgame won">>
    /\ turn_ret' = "True"
    /\ start_ret' = IF pc = "turn" THEN start_return("True") ELSE start_ret
    /\ pc' = "done"
    /\ turns' = turns + 1
    /\ UNCHANGED <<config, words, choices, drawn, word, guesses, lives, char,
                   err, accepts, rejects>>

\* a Game.turn that looks at the lives before it looks at the word
TurnLost_before_won ==
    /\ TurnCalled
    /\ lives = 0
    /\ ui' = <<"UI", "endgame lost">>
    /\ turn_ret' = "False"
    /\ start_ret' = IF pc = "turn" THEN start_return("False") ELSE start_ret
    /\ pc' = "done"
    /\ turns' = turns + 1
    /\ UNCHANGED <<config, words, choices, drawn, word, guesses, lives, char,
                   err, accepts, rejects>>

\* Game.turn with no life left; Game.start, when it made the call, returns
TurnLost ==
    /\ TurnCalled
    /\ ~has_won(word)
    /\ lives = 0
    /\ ui' = <<"UI", "endgame lost">>
    /\ turn_ret' = "False"
    /\ start_ret' = IF pc = "turn" THEN start_return("False") ELSE start_ret
    /\ pc' = "done"
    /\ turns' = turns + 1
    /\ UNCHANGED <<config, words, choices, drawn, word, guesses, lives, char,
                   err, accepts, rejects>>

\* a Game.turn that tests the lives with `< 0`, and so asks for a guess with
\* no life left
TurnSolicit_at_no_life ==
    /\ TurnCalled
    /\ ~has_won(word)
    /\ ui' = <<"UI">>
    /\ pc' = "get_guess"
    /\ turns' = turns + 1
    /\ UNCHANGED <<config, words, choices, drawn, word, guesses, lives, char,
                   turn_ret, start_ret, err, accepts, rejects>>

\* Game.turn otherwise, up to the first line get_guess reads
TurnSolicit ==
    /\ TurnCalled
    /\ ~has_won(word)
    /\ lives # 0
    /\ ui' = <<"UI">>
    /\ pc' = "get_guess"
    /\ turns' = turns + 1
    /\ UNCHANGED <<config, words, choices, drawn, word, guesses, lives, char,
                   turn_ret, start_ret, err, accepts, rejects>>

\* get_guess reads a line it does not accept, and asks again
GetGuessReject ==
    /\ pc = "get_guess"
    /\ \E s \in Inputs :
        /\ ~accepted(s)
        /\ char' = s
    /\ rejects' = IF rejects < MaxRejects THEN rejects + 1 ELSE rejects
    /\ UNCHANGED <<config, pc, words, choices, drawn, word, guesses, lives,
                   turn_ret, start_ret, err, ui, turns, accepts>>

\* a Game.turn that appends the guess to the history before it evaluates it
GetGuessAccept_appends_first ==
    /\ pc = "get_guess"
    /\ \E s \in Inputs :
        /\ accepted(s)
        /\ LET r == guess_correct(s, Append(guesses, [char |-> s, correct |-> "None"]),
                                  word, config)
           IN  /\ r = "None" => NeutralCount(guesses) < MaxNeutral
               /\ word' = guess_word(s, guesses, word, config)
               /\ lives' = lives_after(lives, r)
               /\ guesses' = Append(guesses, [char |-> s, correct |-> r])
    /\ char' = <<>>
    /\ turn_ret' = "None"
    /\ pc' = "turn"
    /\ accepts' = accepts + 1
    /\ UNCHANGED <<config, words, choices, drawn, start_ret, err, ui, turns,
                   rejects>>

\* a Game.turn that records a guess only when it was not made before
GetGuessAccept_skips_duplicates ==
    /\ pc = "get_guess"
    /\ \E s \in Inputs :
        /\ accepted(s)
        /\ LET r == guess_correct(s, guesses, word, config)
               dup == \E i \in 1..Len(guesses) : guesses[i].char = s
           IN  /\ word' = guess_word(s, guesses, word, config)
               /\ lives' = lives_after(lives, r)
               /\ guesses' = IF dup THEN guesses
                              ELSE Append(guesses, [char |-> s, correct |-> r])
    /\ char' = <<>>
    /\ turn_ret' = "None"
    /\ pc' = "turn"
    /\ accepts' = accepts + 1
    /\ UNCHANGED <<config, words, choices, drawn, start_ret, err, ui, turns,
                   rejects>>

\* get_guess reads a line it accepts; Game.turn evaluates the guess, takes a
\* life if it was wrong, records it and returns None
GetGuessAccept ==
    /\ pc = "get_guess"
    /\ \E s \in Inputs :
        /\ accepted(s)
        /\ LET r == guess_correct(s, guesses, word, config)
           IN  /\ r = "None" => NeutralCount(guesses) < MaxNeutral
               /\ word' = guess_word(s, guesses, word, config)
               /\ lives' = lives_after(lives, r)
               /\ guesses' = Append(guesses, [char |-> s, correct |-> r])
    /\ char' = <<>>
    /\ turn_ret' = "None"
    /\ pc' = "turn"
    /\ accepts' = accepts + 1
    /\ UNCHANGED <<config, words, choices, drawn, start_ret, err, ui, turns,
                   rejects>>

Next ==
    \/ FromConfigLoad
    \/ ChooseFails
    \/ ChooseAgain
    \/ ChooseReturn
    \/ GameInit
    \/ TurnWon
    \/ TurnLost
    \/ TurnSolicit
    \/ GetGuessReject
    \/ GetGuessAccept

Spec == Init /\ [][Next]_vars

\* a step of the run of the program: any step until Game.start returns.
\* Game.start is the last statement of the program, which calls turn no
\* more once it is over
RunStep == pc # "done" /\ Next

\* the program does not stop while its run has a step to take; which line
\* the player types next is left open, and so is whether anything calls
\* turn again after the run
LiveSpec == Init /\ [][Next]_vars /\ WF_vars(RunStep)

-----------------------------------------------------------------------------
(* What the properties below speak of *)

\* the lower case Latin letters
Lower == {97, 98, 99, 100, 101, 102, 103, 104, 105, 106, 107, 108, 109,
          110, 111, 112, 113, 114, 115, 116, 117, 118, 119, 120, 121, 122}

\* a session exists: Game.__init__ has finished
InSession == pc \in {"turn", "get_guess", "done"}

\* this step is a turn taking a guess: get_guess returned and Game.turn ended
GuessTaken == pc = "get_guess" /\ pc' = "turn"

\* the record that step appended
NewGuess == guesses'[Len(guesses')]

\* s is the character of some record of the history gs
InHistory(s, gs) == s \in {gs[i].char : i \in 1..Len(gs)}

\* s is the character of some cell of the word w
InPuzzle(s, w) == s \in {w[i].char : i \in 1..Len(w)}

\* cell c holds a lower case Latin letter
IsLetterCell(c) == Len(c.char) = 1 /\ c.char[1] \in Lower

\* every cell of w that holds a lower case Latin letter is guessed
AllLettersGuessed(w) == \A i \in 1..Len(w) : IsLetterCell(w[i]) => w[i].guessed

\* the records of gs with outcome r
CountOf(gs, r) == Cardinality({i \in 1..Len(gs) : gs[i].correct = r})

\* the last record of the history, when there is one
LastIs(r) == guesses # <<>> /\ guesses[Len(guesses)].correct = r

-----------------------------------------------------------------------------
(* The properties *)

\* C1: a guess whose character is not in the history and is in the puzzle is
\* Correct, costs no life and sets guessed on every cell holding the
\* character, which then displays the character and not the placeholder.
C1_PresentCharIsCorrect ==
    [][(GuessTaken /\ ~InHistory(NewGuess.char, guesses)
                   /\ InPuzzle(NewGuess.char, word))
        => /\ NewGuess.correct = "True"
           /\ lives' = lives
           /\ \A i \in 1..Len(word) :
                word[i].char = NewGuess.char
                    => /\ word'[i].guessed
                       /\ char_display(word'[i]) = NewGuess.char
                       /\ char_display(word'[i]) # <<95>>]_vars

\* C1 happens: "a" was just guessed right in a word holding it twice
C1_Witness ==
    /\ pc = "turn"
    /\ LastIs("True")
    /\ Cardinality({i \in 1..Len(word) :
                        word[i].char = guesses[Len(guesses)].char
                        /\ word[i].guessed}) = 2
    /\ lives = config.lives

\* C2: a guess whose character is neither in the history nor in the puzzle
\* is Incorrect and takes exactly one life.
C2_AbsentCharIsIncorrect ==
    [][(GuessTaken /\ ~InHistory(NewGuess.char, guesses)
                   /\ ~InPuzzle(NewGuess.char, word))
        => /\ NewGuess.correct = "False"
           /\ lives' = lives - 1]_vars

\* C2 happens: the first guess was "x", and it took a life
C2_Witness ==
    /\ pc = "turn"
    /\ guesses = <<[char |-> <<120>>, correct |-> "False"]>>
    /\ lives = config.lives - 1

\* C3: a guess whose character is in the history already is Neutral and
\* costs nothing when lose_life_on_duplicate_guess is off, and is Incorrect
\* and takes one life when it is on, whether or not the character is in the
\* puzzle.
C3_DuplicateGuess ==
    [][(GuessTaken /\ InHistory(NewGuess.char, guesses))
        => IF config.lose_life_on_duplicate_guess
           THEN NewGuess.correct = "False" /\ lives' = lives - 1
           ELSE NewGuess.correct = "None" /\ lives' = lives]_vars

\* C3 happens: a character of the puzzle, guessed right before, was guessed
\* again, and so was one that is not in the puzzle
C3_Witness ==
    /\ pc = "turn"
    /\ Len(guesses) >= 2
    /\ LET last == guesses[Len(guesses)]
       IN  /\ InPuzzle(last.char, word)
           /\ \E i \in 1..(Len(guesses) - 1) :
                guesses[i].char = last.char /\ guesses[i].correct = "True"
           /\ last.correct = "False"
           /\ config.lose_life_on_duplicate_guess

\* C4: a turn on a won puzzle returns True; else with no life left it
\* returns False; else it takes one guess and returns None.  So True is
\* returned only with every letter guessed, False only with lives = 0 and a
\* letter still hidden, and with both lives = 0 and the puzzle won, True.
C4_TurnOrder ==
    [][/\ (pc = "turn" /\ has_won(word))
            => pc' = "done" /\ turn_ret' = "True"
       /\ (pc = "turn" /\ ~has_won(word) /\ lives = 0)
            => pc' = "done" /\ turn_ret' = "False"
       /\ (pc = "turn" /\ ~has_won(word) /\ lives # 0)
            => pc' = "get_guess"
       /\ GuessTaken => turn_ret' = "None" /\ Len(guesses') = Len(guesses) + 1
       /\ (pc = "turn" /\ turn_ret' = "True") => AllLettersGuessed(word')
       /\ (pc = "turn" /\ turn_ret' = "False")
            => lives' = 0 /\ ~AllLettersGuessed(word')]_vars

\* C4 happens: a game ended won with no life left
C4_Witness ==
    /\ pc = "done"
    /\ turn_ret = "True"
    /\ lives = 0

\* C5: has_won is true exactly when every cell holding a lower case Latin
\* letter is guessed; for a word of such letters only, exactly when every
\* character of the word has been guessed.
C5_HasWon ==
    InSession =>
        /\ has_won(word) <=> AllLettersGuessed(word)
        /\ (\A i \in 1..Len(word) : IsLetterCell(word[i]))
            => (has_won(word) <=>
                    \A i \in 1..Len(word) : InHistory(word[i].char, guesses))

\* C5 happens: a word of two letters was won by the guess of its last one
C5_Witness ==
    /\ pc = "turn"
    /\ has_won(word)
    /\ LastIs("True")
    /\ \A i \in 1..Len(word) : IsLetterCell(word[i])
    /\ Cardinality({word[i].char : i \in 1..Len(word)}) = 2

\* C6: in a session, 0 <= lives <= config.lives, and lives is config.lives
\* less the number of Incorrect records of the history.
C6_Lives ==
    InSession =>
        /\ lives \in 0..config.lives
        /\ lives = config.lives - CountOf(guesses, "False")

\* C6 happens: a history with a Correct, an Incorrect and a Neutral record
C6_Witness ==
    /\ InSession
    /\ CountOf(guesses, "True") > 0
    /\ CountOf(guesses, "False") > 0
    /\ CountOf(guesses, "None") > 0
    /\ lives = config.lives - 1

\* the distinct lower case letters of w that are not guessed yet
HiddenLetters(w) ==
    {w[i].char : i \in {j \in 1..Len(w) : IsLetterCell(w[j]) /\ ~w[j].guessed}}

\* the distinct lower case letters of w
Letters(w) == {w[i].char : i \in {j \in 1..Len(w) : IsLetterCell(w[j])}}

\* what a guess that is not Neutral makes smaller
Variant(w, l) == l + Cardinality(HiddenLetters(w))

\* a Correct or Incorrect guess makes lives + hidden letters smaller
C7_VariantStep ==
    (GuessTaken /\ NewGuess.correct \in {"True", "False"})
        => Variant(word', lives') < Variant(word, lives)

\* no more than config.lives + letters of the word guesses are not Neutral
C7_GuessBound ==
    InSession =>
        CountOf(guesses, "True") + CountOf(guesses, "False")
            <= config.lives + Cardinality(Letters(word))

\* C7 (as amended): every Correct or Incorrect guess makes lives + hidden
\* letters smaller, so at most config.lives + letters of the word guesses are
\* not Neutral; and Game.start returns, in a game where a guess is repeated
\* at no cost MaxNeutral times at most, provided get_guess is not left
\* asking again forever, that is, provided every call of get_guess is in the
\* end given a line it accepts.
C7_Terminates ==
    /\ [][C7_VariantStep]_vars
    /\ []C7_GuessBound
    /\ ([]<>(pc # "get_guess")) => ((pc = "turn") ~> (pc = "done"))

\* C7 (as claimed): the same, with Game.start returning whatever lines the
\* player types.
C7_Original ==
    /\ [][C7_VariantStep]_vars
    /\ []C7_GuessBound
    /\ (pc = "turn") ~> (pc = "done")

\* C7 happens: a game with the most lives and a word of two letters ended
\* lost, one guess short of the bound, after a guess was repeated at no cost
C7_Witness ==
    /\ pc = "done"
    /\ config.lives = MaxLives
    /\ CountOf(guesses, "True") + CountOf(guesses, "False")
        = config.lives + Cardinality(Letters(word)) - 1
    /\ Cardinality(Letters(word)) = 2
    /\ CountOf(guesses, "None") = MaxNeutral

\* C8 (as amended): Game.start returns None however the game ended; it is
\* the last call of Game.turn that returned True for a won puzzle and False
\* for a game lost with no life left.
C8_StartReturnsNone ==
    pc = "done" =>
        /\ start_ret = "None"
        /\ turn_ret \in {"True", "False"}
        /\ turn_ret = "True" <=> AllLettersGuessed(word)
        /\ turn_ret = "False" <=> (lives = 0 /\ ~AllLettersGuessed(word))

\* C8 (as claimed): what Game.start returns is Won for a game that ended
\* won and Lost for a game that ended with no life left.
C8_Original ==
    pc = "done" =>
        /\ AllLettersGuessed(word) => start_ret = "True"
        /\ (lives = 0 /\ ~AllLettersGuessed(word)) => start_ret = "False"

\* C8 happens: Game.start returned from a game lost after some guesses
C8_Witness ==
    /\ pc = "done"
    /\ turn_ret = "False"
    /\ guesses # <<>>
    /\ config.lives > 0

\* C9 (as claimed): every guess of the history is one lower case Latin
\* letter; no other line is recorded or costs a life.
C9_Original ==
    /\ \A i \in 1..Len(guesses) :
        Len(guesses[i].char) = 1 /\ guesses[i].char[1] \in Lower
    /\ InSession => lives = config.lives -
            Cardinality({i \in 1..Len(guesses) :
                /\ guesses[i].correct = "False"
                /\ Len(guesses[i].char) = 1
                /\ guesses[i].char[1] \in Lower})

\* the least of two numbers
Min(a, b) == IF a < b THEN a ELSE b

\* C10 (as claimed): the word from_config returns is one of the first
\* min(selection_range, corpus size) entries of the corpus in the stable
\* order of |frequency - difficulty|, and is all letters when use_punctuated
\* is off.
C10_Original ==
    pc = "selected" =>
        /\ \E i \in 1..Min(config.selection_range, Len(words)) :
                sorted(words, config.difficulty)[i].word = str(word)
        /\ ~config.use_punctuated => isalpha(str(word))

\* the entry of the corpus ws whose frequency is closest to d, the earliest
\* of them in ws when several are as close
Closest(ws, d) ==
    ws[CHOOSE i \in 1..Len(ws) :
        \A j \in 1..Len(ws) :
            \/ abs(ws[i].frequency - d) < abs(ws[j].frequency - d)
            \/ abs(ws[i].frequency - d) = abs(ws[j].frequency - d) /\ i <= j]

\* from_config runs, or has just returned, with selection_range = 1 and a
\* corpus that is not empty
SelectingOne ==
    /\ pc \in {"choose", "selected"}
    /\ config.selection_range = 1
    /\ words # <<>>

\* C11 (as amended): with selection_range = 1 and a corpus that is not
\* empty the pool is the one entry closest to the difficulty, the earliest in
\* the corpus on a tie, and whenever from_config returns it returns that
\* entry's word; it returns only with use_punctuated on or that word all
\* letters.
C11_ClosestWhenReturned ==
    SelectingOne =>
        /\ choices = <<Closest(words, config.difficulty)>>
        /\ pc = "selected" =>
            /\ drawn = Closest(words, config.difficulty).word
            /\ str(word) = Closest(words, config.difficulty).word
            /\ config.use_punctuated \/ isalpha(drawn)

\* C11 (as claimed): with selection_range = 1 and a corpus that is not empty
\* from_config always returns the closest entry, whatever use_punctuated is:
\* the draw of its loop is never turned down.
C11_Original ==
    SelectingOne =>
        /\ choices = <<Closest(words, config.difficulty)>>
        /\ pc = "selected" => drawn = Closest(words, config.difficulty).word
        /\ pc = "choose" =>
            \A i \in 1..Len(choices) :
                config.use_punctuated \/ isalpha(choices[i].word)

\* C11 happens: of two entries as close as each other the first was returned
C11_Witness ==
    /\ pc = "selected"
    /\ config.selection_range = 1
    /\ Len(words) = 2
    /\ abs(words[1].frequency - config.difficulty)
        = abs(words[2].frequency - config.difficulty)
    /\ drawn = words[1].word
    /\ drawn # words[2].word

\* C12 (as claimed): with an empty corpus or selection_range <= 0,
\* from_config fails with ConfigError: it returns no word and fails with no
\* other error.
C12_Original ==
    (pc \in {"choose", "selected", "error"}
        /\ (words = <<>> \/ config.selection_range <= 0))
    => /\ pc # "selected"
       /\ pc = "error" => err = "ConfigError"

\* from_config is in its loop with use_punctuated off and a pool that is not
\* empty and has no word of letters only
NoAlphaPool ==
    /\ pc = "choose"
    /\ ~config.use_punctuated
    /\ choices # <<>>
    /\ \A i \in 1..Len(choices) : ~isalpha(choices[i].word)

\* C13 (as claimed): from_config always ends.  In every round of its loop,
\* and so in one with use_punctuated off and no word of letters only in the
\* pool, it can end: with a word, or else with an error.
C13_Original ==
    /\ pc = "choose" => ENABLED (ChooseReturn \/ ChooseFails)
    /\ NoAlphaPool => ENABLED ChooseFails

\* the outcome of guessing s with history gs, word w and settings cfg
Outcome(s, gs, w, cfg) ==
    IF InHistory(s, gs)
    THEN (IF cfg.lose_life_on_duplicate_guess THEN "False" ELSE "None")
    ELSE (IF InPuzzle(s, w) THEN "True" ELSE "False")

\* C14: a turn that takes a guess appends one record to the history, for a
\* repeated guess too, with the outcome of the guess against the history
\* before it; no other step changes the history, and a turn that ends the
\* game appends nothing.  So no record ever changes.
C14_AppendOnly ==
    [][/\ GuessTaken
            => /\ Len(guesses') = Len(guesses) + 1
               /\ SubSeq(guesses', 1, Len(guesses)) = guesses
               /\ NewGuess.correct = Outcome(NewGuess.char, guesses, word, config)
       /\ (InSession /\ ~GuessTaken) => guesses' = guesses
       /\ (InSession /\ pc' = "done") => guesses' = guesses]_vars

\* C14 happens: a repeated guess was recorded after two other records
C14_Witness ==
    /\ pc = "turn"
    /\ Len(guesses) = 3
    /\ guesses[3].correct = "None"
    /\ guesses[3].char = guesses[1].char
    /\ guesses[2].char # guesses[1].char

\* C15: the cells of the word keep their number and their characters, so
\* that str(word) stays the word it was made from; a guessed flag never goes
\* back to false; a guess that is not Correct changes no flag, and nothing
\* but a Correct guess changes one.
C15_PuzzleFrame ==
    [][/\ pc' = "selected"
            => /\ str(word') = drawn'
               /\ Len(word') = Len(drawn')
               /\ \A i \in 1..Len(word') : ~word'[i].guessed
       /\ pc # "choose"
            => /\ Len(word') = Len(word)
               /\ get_chars(word') = get_chars(word)
               /\ str(word') = str(word)
               /\ \A i \in 1..Len(word) : word[i].guessed => word'[i].guessed
               /\ word' # word => (GuessTaken /\ NewGuess.correct = "True")
       /\ (GuessTaken /\ NewGuess.correct # "True") => word' = word]_vars

\* C15 happens: with a cell guessed and a cell hidden, the guess "ab", which
\* holds the characters of both, was Incorrect
C15_Witness ==
    /\ pc = "turn"
    /\ str(word) = <<97, 98, 97>>
    /\ \E i \in 1..Len(word) : word[i].guessed
    /\ \E i \in 1..Len(word) : ~word[i].guessed
    /\ LastIs("False")
    /\ guesses[Len(guesses)].char = <<97, 98>>

\* what cell c shows: the placeholder for a lower case letter not guessed,
\* its own character otherwise
Symbol(c) == IF IsLetterCell(c) /\ ~c.guessed THEN 95 ELSE c.char[1]

\* the symbols of the cells of w in order, one space between neighbours
Rendered(w) ==
    [k \in 1..(IF Len(w) = 0 THEN 0 ELSE 2 * Len(w) - 1) |->
        IF k % 2 = 0 THEN 32 ELSE Symbol(w[(k + 1) \div 2])]

\* C16: display is the cells' symbols in word order with single spaces
\* between them: "_" for a lower case letter not guessed, the cell's own
\* character for a guessed cell and for every other cell.
C16_Display ==
    (pc = "selected" \/ InSession) => display(word) = Rendered(word)

\* C16 happens: at the first turn, a hidden letter and a hyphen shown in full
C16_Witness ==
    /\ pc = "get_guess"
    /\ guesses = <<>>
    /\ display(word) = <<95, 32, 45>>

\* what a turn paints when it ends the game with the value r
EndgamePainted(r) == IF r = "True" THEN "endgame won" ELSE "endgame lost"

\* C17 (as amended): every call of Game.turn paints the in-progress UI
\* first; a call that ends the game paints the endgame UI after it, and a call
\* that goes on to ask for a guess paints nothing else.
C17_TurnPaints ==
    /\ pc = "done" => ui = <<"UI", EndgamePainted(turn_ret)>>
    /\ pc = "get_guess" => ui = <<"UI">>
    /\ (pc = "turn" /\ guesses # <<>>) => ui = <<"UI">>

\* C17 (as claimed): a call of Game.turn that ends the game paints the
\* endgame UI only, and the in-progress UI is painted only by a call that
\* goes on to ask for a guess.
C17_Original ==
    /\ pc = "done" => ui = <<EndgamePainted(turn_ret)>>
    /\ pc = "get_guess" => ui = <<"UI">>
    /\ (pc = "turn" /\ guesses # <<>>) => ui = <<"UI">>

\* C17 happens: a game was lost after a guess, and the turn that said so
\* painted both
C17_Witness ==
    /\ pc = "done"
    /\ turn_ret = "False"
    /\ guesses # <<>>
    /\ ui = <<"UI", "endgame lost">>

\* this step is the call of Game.turn that makes Game.start return
StartReturns == pc = "turn" /\ pc' = "done"

\* C18 (as amended): a turn that takes a guess returns None, also when the
\* guess wins the word or takes the last life; the next call returns True or
\* False and reads no line.  So when Game.start returns after n guesses,
\* Game.turn was called n + 1 times and get_guess accepted n lines; the
\* lines read are these n and every line get_guess turned down.
C18_TurnsAndReads ==
    [][/\ GuessTaken
            => /\ turn_ret' = "None"
               /\ accepts' = accepts + 1
               /\ rejects' = rejects
       /\ StartReturns
            => /\ turn_ret' \in {"True", "False"}
               /\ guesses # <<>> => turn_ret = "None"
               /\ accepts' = accepts /\ rejects' = rejects /\ char' = char
               /\ turns' = Len(guesses') + 1
               /\ accepts' = Len(guesses')
               /\ accepts' + rejects' >= Len(guesses')]_vars

\* C18 (as claimed): the same, with exactly n lines read when Game.start
\* returns after n guesses.
C18_Original ==
    [][/\ GuessTaken => turn_ret' = "None"
       /\ StartReturns
            => /\ turn_ret' \in {"True", "False"}
               /\ accepts' = accepts /\ rejects' = rejects /\ char' = char
               /\ turns' = Len(guesses') + 1
               /\ accepts' + rejects' = Len(guesses')]_vars

\* C18 happens: Game.start returned from a game of two guesses, the second
\* of which won the word, after a line was turned down
C18_Witness ==
    /\ pc = "done"
    /\ Len(guesses) = 2
    /\ LastIs("True")
    /\ turn_ret = "True"
    /\ turns = 3
    /\ accepts = 2
    /\ rejects = 1

\* C19: once Game.turn has returned True or False, a further call returns
\* the same, reads no line and leaves the lives, the history and the word as
\* they are.
C19_Absorbing ==
    [][pc = "done"
        => /\ pc' = "done"
           /\ turn_ret' = turn_ret
           /\ accepts' = accepts /\ rejects' = rejects /\ char' = char
           /\ lives' = lives
           /\ guesses' = guesses
           /\ word' = word]_vars

\* C19 happens: Game.turn was called again after a game lost with guesses
C19_Witness ==
    /\ pc = "done"
    /\ turns > Len(guesses) + 1
    /\ guesses # <<>>
    /\ turn_ret = "False"

\* C20: in a session a cell is guessed exactly when its character is in the
\* history; so cells with the same character have the same flag, a cell that
\* holds no lower case letter is never guessed, and the first record of a
\* character is Correct exactly when the character is in the word.
C20_GuessedIffInHistory ==
    InSession =>
        /\ \A i \in 1..Len(word) :
            word[i].guessed <=> InHistory(word[i].char, guesses)
        /\ \A i, j \in 1..Len(word) :
            word[i].char = word[j].char => word[i].guessed = word[j].guessed
        /\ \A i \in 1..Len(word) : ~IsLetterCell(word[i]) => ~word[i].guessed
        /\ \A k \in 1..Len(guesses) :
            (\A h \in 1..(k - 1) : guesses[h].char # guesses[k].char)
                => (guesses[k].correct = "True" <=> InPuzzle(guesses[k].char, word))

\* C20 happens: a character that is twice in the word was guessed after one
\* that is not in it, with another letter of the word still hidden
C20_Witness ==
    /\ pc = "turn"
    /\ Len(guesses) = 2
    /\ guesses[1].correct = "False"
    /\ guesses[2].correct = "True"
    /\ Cardinality({i \in 1..Len(word) : word[i].guessed}) = 2
    /\ \E i \in 1..Len(word) : ~word[i].guessed

====
